---- MODULE Spec2Model ----
(***************************************************************************)
(* SC.IndexSet (frameworks/runtime/system/index_set.js): a sparse set of   *)
(* indexes stored as a boundary array `_content`, a frontier `_last` and a *)
(* cached cardinality `length`.                                            *)
(*                                                                         *)
(* JavaScript values that the code can produce besides integers            *)
(* (undefined from a read of a hole, NaN from Math.abs(undefined)) are     *)
(* modelled as tagged records, so that comparisons with them are false as  *)
(* they are in JavaScript.                                                 *)
(***************************************************************************)
EXTENDS Integers, Sequences, FiniteSets, TLC

VARIABLES content, last, length, calls, removed, hook, hookSeen, result, hung, iter, yielded

vars == <<content, last, length, calls, removed, hook, hookSeen, result, hung, iter, yielded>>

----------------------------------------------------------------------------
(* Program constants *)

HINT_SIZE == 256

RANGE_START_STRIDE == 256

----------------------------------------------------------------------------
(* Bounds of the model *)

\* number of add calls made on one set
MaxCalls == 2

\* start arguments lie around the multiples 0 .. MaxWindow of HINT_SIZE,
\* at most MaxOffset away from them
MaxWindow == 1

MaxOffset == 1

\* length arguments are 0 .. MaxLen
MaxLen == 2

\* invalid arguments are -MaxNeg .. -1
MaxNeg == 1

----------------------------------------------------------------------------
(* JavaScript values *)

Num(n) == [t |-> "number", v |-> n]

NaN == [t |-> "NaN", v |-> 0]

Undefined == [t |-> "undefined", v |-> 0]

Null == [t |-> "null", v |-> 0]

\* a call that never returns (its loop cycles)
Diverges == [t |-> "diverges", v |-> 0]

IsNum(x) == x.t = "number"

\* content[k]: a hole, or a key that is not a number, reads as undefined
Get(c, k) == IF IsNum(k) /\ k.v \in DOMAIN c THEN Num(c[k.v]) ELSE Undefined

\* content[k] = v
Put(c, k, v) == [x \in (DOMAIN c) \cup {k} |-> IF x = k THEN v ELSE c[x]]

\* Math.abs
Abs(x) == IF IsNum(x) THEN Num(IF x.v < 0 THEN 0 - x.v ELSE x.v) ELSE NaN

\* a < b, a <= b, a > b, a >= b: false as soon as an operand is NaN or undefined
Lt(a, b) == IsNum(a) /\ IsNum(b) /\ a.v < b.v

Le(a, b) == IsNum(a) /\ IsNum(b) /\ a.v <= b.v

Gt(a, b) == Lt(b, a)

Ge(a, b) == Le(b, a)

\* a % b of JavaScript: the remainder takes the sign of the dividend
JSMod(a, b) == IF a >= 0 THEN a % b ELSE 0 - ((0 - a) % b)

----------------------------------------------------------------------------
(* rangeStartForIndex / contains *)

RECURSIVE RangeStartWalk(_, _, _, _, _)
RangeStartWalk(c, ret, next, index, seen) ==
    IF Lt(next, Num(index))
    THEN IF next.v \in seen
         THEN Diverges
         ELSE RangeStartWalk(c, next, Abs(Get(c, next)), index, seen \cup {next.v})
    ELSE ret

\* as rangeStartForIndex, without the fast case of an index at or after _last
rangeStartForIndexNoLast(c, lst, index) ==
    IF Gt(Get(c, Num(index)), Num(0)) THEN Num(index)
    ELSE LET ret  == Get(c, Num(index - JSMod(index, RANGE_START_STRIDE)))
             next == Abs(Get(c, ret))
         IN  RangeStartWalk(c, ret, next, index, {})

rangeStartForIndex(c, lst, index) ==
    IF index >= lst THEN Num(lst)
    ELSE IF Gt(Get(c, Num(index)), Num(0)) THEN Num(index)
    ELSE LET ret  == Get(c, Num(index - JSMod(index, RANGE_START_STRIDE)))
             next == Abs(Get(c, ret))
         IN  RangeStartWalk(c, ret, next, index, {})

\* as contains, without the test of the end of the run
containsNoEnd(c, lst, start, len) ==
    LET rstart == rangeStartForIndex(c, lst, start)
        rnext  == Get(c, rstart)
    IN  Gt(rnext, Num(0)) /\ Le(rstart, Num(start))

contains(c, lst, start, len) ==
    LET rstart == rangeStartForIndex(c, lst, start)
        rnext  == Get(c, rstart)
    IN  Gt(rnext, Num(0)) /\ Le(rstart, Num(start)) /\ Ge(rnext, Num(start + len))

----------------------------------------------------------------------------
(* _hint *)

\* while (next <= loc) { start = next; next = Math.abs(content[start]); }
RECURSIVE HintWalk(_, _, _, _, _)
HintWalk(c, start, next, loc, seen) ==
    IF Le(next, Num(loc))
    THEN IF next.v \in seen
         THEN [start |-> start, next |-> next, diverged |-> TRUE]
         ELSE HintWalk(c, next.v, Abs(Get(c, next)), loc, seen \cup {next.v})
    ELSE [start |-> start, next |-> next, diverged |-> FALSE]

\* as HintLoop, without the inner walk: the hint is the range the outer loop
\* started in
RECURSIVE HintLoopStale(_, _, _, _, _)
HintLoopStale(c, start, next, loc, lim) ==
    IF loc < lim
    THEN HintLoopStale(IF loc # start THEN Put(c, loc, start) ELSE c,
                       start, next, loc + HINT_SIZE, lim)
    ELSE [content |-> c, diverged |-> FALSE]

\* as HintLoop, without the test loc !== start
RECURSIVE HintLoopOverwrites(_, _, _, _, _)
HintLoopOverwrites(c, start, next, loc, lim) ==
    IF loc < lim
    THEN LET w == HintWalk(c, start, next, loc, {})
         IN  IF w.diverged
             THEN [content |-> c, diverged |-> TRUE]
             ELSE HintLoopOverwrites(Put(c, loc, w.start), w.start, w.next, loc + HINT_SIZE, lim)
    ELSE [content |-> c, diverged |-> FALSE]

\* while (loc < lim) { ...; if (loc !== start) content[loc] = start; loc += skip; }
RECURSIVE HintLoop(_, _, _, _, _)
HintLoop(c, start, next, loc, lim) ==
    IF loc < lim
    THEN LET w == HintWalk(c, start, next, loc, {})
             d == IF loc # w.start THEN Put(c, loc, w.start) ELSE c
         IN  IF w.diverged
             THEN [content |-> c, diverged |-> TRUE]
             ELSE HintLoop(d, w.start, w.next, loc + HINT_SIZE, lim)
    ELSE [content |-> c, diverged |-> FALSE]

\* as hint, with the first hint location at the start of the window of start
hintFromWindowStart(c, start, len) ==
    IF IsNum(start) /\ IsNum(len)
    THEN HintLoop(c, start.v, Abs(Get(c, start)),
                  start.v - JSMod(start.v, HINT_SIZE), start.v + len.v)
    ELSE [content |-> c, diverged |-> FALSE]

\* start and length are JavaScript values: add passes undefined for both when
\* it did not append, which makes loc and lim NaN and the loop body dead
hint(c, start, len) ==
    IF IsNum(start) /\ IsNum(len)
    THEN HintLoop(c, start.v, Abs(Get(c, start)),
                  start.v - JSMod(start.v, HINT_SIZE) + HINT_SIZE, start.v + len.v)
    ELSE [content |-> c, diverged |-> FALSE]

----------------------------------------------------------------------------
(* add *)

\* normalize input: add(start, length), add(index), add({start, length})
NormStart(args) == args.start

NormLength(args) == IF args.form = "index" THEN 1 ELSE args.length

\* if (start > last)
AddAppendsAlways(lst, start) == TRUE

AddAppendsAtFrontier(lst, start) == start >= lst

AddAppends(lst, start) == start > lst

\* content[last] = 0-start; content[start] = start+length; content[start+length] = 0
AddBorders(c, lst, start, len) ==
    IF AddAppends(lst, start)
    THEN Put(Put(Put(c, lst, 0 - start), start, start + len), start + len, 0)
    ELSE c

\* this._last = start + length
AddLastNoLength(lst, start, len) == IF AddAppends(lst, start) THEN start ELSE lst

AddLast(lst, start, len) == IF AddAppends(lst, start) THEN start + len ELSE lst

\* this.set('length', this.length + length)
AddLengthNaive(n, lst, start, len) == n + len

AddLength(n, lst, start, len) == IF AddAppends(lst, start) THEN n + len ELSE n

\* hstart = last ; hlength = this._last - hstart (both stay undefined in the
\* merge branch, which is empty)
AddHintStart(lst, start) == IF AddAppends(lst, start) THEN Num(lst) ELSE Undefined

AddHintLength(lst, start, len) ==
    IF AddAppends(lst, start) THEN Num(AddLast(lst, start, len) - lst) ELSE Undefined

\* the set as an observer called from enumerableContentDidChange sees it
\* (hookSeen keeps what the latest call of the hook saw):
\* the call comes after the borders, _last, length and the hints are written
AddHookStateBeforeHint(bordered, hinted, lst, n) ==
    [content |-> bordered, last |-> lst, length |-> n]

AddHookState(bordered, hinted, lst, n) ==
    [content |-> hinted, last |-> lst, length |-> n]

add(args) ==
    LET start    == NormStart(args)
        len      == NormLength(args)
        bordered == AddBorders(content, last, start, len)
        newLast  == AddLast(last, start, len)
        newLen   == AddLength(length, last, start, len)
        h        == hint(bordered, AddHintStart(last, start), AddHintLength(last, start, len))
    IN  /\ ~hung
        /\ iter.phase = "idle"
        /\ Len(calls) < MaxCalls
        /\ calls' = Append(calls, [start |-> start, length |-> len])
        /\ content' = h.content
        /\ last' = newLast
        /\ length' = newLen
        /\ IF h.diverged
           THEN /\ hung' = TRUE
                /\ UNCHANGED <<hook, hookSeen, result>>
           ELSE /\ hung' = FALSE
                /\ hook' = Append(hook, [start |-> start, length |-> len])
                /\ hookSeen' = AddHookState(bordered, h.content, newLast, newLen)
                /\ result' = "this"
        /\ UNCHANGED <<removed, iter, yielded>>

----------------------------------------------------------------------------
(* remove *)

\* The class comment documents set.remove(index, length), but the only remove
\* in the file is inside the commented-out block: the prototype has no such
\* property and the call set.remove(..) throws a TypeError before anything
\* of the set is touched. `removed` logs the calls, with the number of add
\* calls made before each.
remove(start, len) ==
    /\ ~hung
    /\ iter.phase = "idle"
    /\ Len(calls) + Len(removed) < MaxCalls
    /\ removed' = Append(removed, [start |-> start, length |-> len, after |-> Len(calls)])
    /\ result' = "TypeError"
    /\ UNCHANGED <<content, last, length, calls, hook, hookSeen, hung, iter, yielded>>

----------------------------------------------------------------------------
(* nextObject, driven from idx = null until it returns null *)

\* do { idx = Math.abs(next); next = content[idx]; } while (next < 0);
RECURSIVE NextObjectWalk(_, _, _)
NextObjectWalk(c, next, seen) ==
    LET idx == Abs(next)
        nx  == Get(c, idx)
    IN  IF Lt(nx, Num(0))
        THEN IF idx.v \in seen
             THEN [idx |-> idx, next |-> nx, diverged |-> TRUE]
             ELSE NextObjectWalk(c, nx, seen \cup {idx.v})
        ELSE [idx |-> idx, next |-> nx, diverged |-> FALSE]

\* if (idx === next) { do .. while ; context.next = next; } return idx;
NextObjectLook(c, idx, next) ==
    IF next = Num(idx)
    THEN LET w == NextObjectWalk(c, next, {})
         IN  [ret |-> w.idx, next |-> w.next, diverged |-> w.diverged]
    ELSE [ret |-> Num(idx), next |-> next, diverged |-> FALSE]

\* idx is the previous result (null to seed), next is context.next
nextObject(c, lst, idx, next) ==
    IF idx = Null THEN NextObjectLook(c, 0, Num(0))
    ELSE IF idx.v >= lst THEN [ret |-> Null, next |-> next, diverged |-> FALSE]
    ELSE NextObjectLook(c, idx.v + 1, next)

Enumerate ==
    LET r == nextObject(content, last, iter.idx, iter.context)
    IN  /\ ~hung
        /\ iter.phase # "done"
        /\ IF r.diverged
           THEN /\ hung' = TRUE
                /\ UNCHANGED <<iter, yielded>>
           ELSE /\ hung' = FALSE
                /\ iter' = [phase   |-> IF r.ret = Null THEN "done" ELSE "running",
                            idx     |-> r.ret,
                            context |-> r.next]
                /\ yielded' = IF r.ret = Null THEN yielded ELSE Append(yielded, r.ret.v)
        /\ UNCHANGED <<content, last, length, calls, removed, hook, hookSeen, result>>

----------------------------------------------------------------------------
(* inputs *)

Starts == {s \in {k * HINT_SIZE + d : k \in 0..MaxWindow, d \in (0 - MaxOffset)..MaxOffset} : s >= 0}

Lengths == 0..MaxLen

Negatives == (0 - MaxNeg)..(0 - 1)

ArgsOf(starts, lengths) ==
    [form : {"pair", "range"}, start : starts, length : lengths]
        \cup [form : {"index"}, start : starts, length : {0}]

AddValid == \E a \in ArgsOf(Starts, Lengths) : add(a)

AddAny == \E a \in ArgsOf(Starts \cup Negatives, Lengths \cup Negatives) : add(a)

Init ==
    /\ content = [k \in {0} |-> 0]
    /\ last = 0
    /\ length = 0
    /\ calls = <<>>
    /\ removed = <<>>
    /\ hook = <<>>
    /\ hookSeen = [content |-> [k \in {} |-> 0], last |-> 0, length |-> 0]
    /\ result = "none"
    /\ hung = FALSE
    /\ iter = [phase |-> "idle", idx |-> Null, context |-> Undefined]
    /\ yielded = <<>>

\* any sequence of add calls
Next == AddValid

Spec == Init /\ [][Next]_vars

\* add calls, then nextObject driven over the set they built
NextEnum == AddValid \/ Enumerate

SpecEnum == Init /\ [][NextEnum]_vars

NextAny == AddAny \/ Enumerate

SpecAny == Init /\ [][NextAny]_vars

RemoveValid == \E s \in Starts, l \in Lengths : remove(s, l)

NextRemove == AddValid \/ RemoveValid

SpecRemove == Init /\ [][NextRemove]_vars

----------------------------------------------------------------------------
(* What the boundary array says, read without rangeStartForIndex: the runs  *)
(* are the entries met by following the chain of ends from key 0.           *)

RECURSIVE RunStartsFrom(_, _, _)
RunStartsFrom(c, k, seen) ==
    IF k \notin DOMAIN c \/ c[k] = 0 \/ k \in seen
    THEN <<>>
    ELSE <<k>> \o RunStartsFrom(c, IF c[k] < 0 THEN 0 - c[k] ELSE c[k], seen \cup {k})

RunStarts == RunStartsFrom(content, 0, {})

RunStartsNext == RunStartsFrom(content', 0, {})

IsPresentIn(c, i) ==
    LET rs == RunStartsFrom(c, 0, {})
    IN  \E n \in 1..Len(rs) : c[rs[n]] > 0 /\ rs[n] <= i /\ i < c[rs[n]]

RECURSIVE SumPresent(_, _, _)
SumPresent(c, rs, n) ==
    IF n > Len(rs) THEN 0
    ELSE (IF c[rs[n]] > 0 THEN c[rs[n]] - rs[n] ELSE 0) + SumPresent(c, rs, n + 1)

\* an index that some add call made so far was asked to cover
Covered(i) == \E n \in 1..Len(calls) : calls[n].start <= i /\ i < calls[n].start + calls[n].length

ValidCall(c) == c.start >= 0 /\ c.length >= 0

\* this step is an add call; LastCall' is the call
IsCall == Len(calls') = Len(calls) + 1

LastCall == calls[Len(calls)]

\* indexes worth asking about: every stored key and the start of every
\* window of HINT_SIZE indexes, and their neighbours. Two indexes between the
\* same two probes are in the same window and compare alike with every stored
\* key and value, so a lookup takes the same path for both.
Probes ==
    {i \in UNION {{k - 1, k, k + 1} :
                     k \in (DOMAIN content) \cup {w * HINT_SIZE : w \in 0..MaxWindow}} : i >= 0}

----------------------------------------------------------------------------
(* C1: after any sequence of valid add calls on an empty set, contains(i, n) *)
(* with n >= 1 is true exactly when every index of [i, i+n) was covered by   *)
(* an earlier add call.                                                      *)
ContainsIffAdded ==
    \A i \in Probes, n \in 1..(MaxLen + 1) :
        contains(content, last, i, n) <=> (\A j \in i..(i + n - 1) : Covered(j))

(* C2: after every valid add call the cached cardinality `length` is the sum *)
(* of the lengths of the present runs of the boundary array.                 *)
CardinalityIsSumOfRuns == length = SumPresent(content, RunStarts, 1)

\* two present runs, one of them longer than one index, are stored
CardinalityWitness ==
    /\ length >= 3
    /\ Len(calls) = 2
    /\ Cardinality({n \in 1..Len(RunStarts) : content[RunStarts[n]] > 0}) >= 2

(* C3: an add(start, length) with length >= 1 and start >= frontier makes    *)
(* every index of [start, start+length) present, moves the frontier to       *)
(* start+length and raises the cardinality by length; with start = frontier  *)
(* no absent run is written.                                                 *)
AppendAtOrBeyondFrontier ==
    [][ (IsCall /\ LastCall'.length >= 1 /\ LastCall'.start >= last)
        => /\ \A i \in LastCall'.start..(LastCall'.start + LastCall'.length - 1) :
                 IsPresentIn(content', i)
           /\ last' = LastCall'.start + LastCall'.length
           /\ length' = length + LastCall'.length
           /\ (LastCall'.start = last => content'[last] > 0) ]_vars

(* C4: an add(start, length) with 0 <= start < frontier and length >= 1      *)
(* makes every index of [start, start+length) present and raises the         *)
(* cardinality by the number of those indexes that were absent before.       *)
MergeBelowFrontier ==
    [][ (IsCall /\ LastCall'.length >= 1 /\ 0 <= LastCall'.start /\ LastCall'.start < last)
        => LET range == LastCall'.start..(LastCall'.start + LastCall'.length - 1)
           IN  /\ \A i \in range : IsPresentIn(content', i)
               /\ length' = length + Cardinality({i \in range : ~IsPresentIn(content, i)}) ]_vars

(* C5: calling add(s, l) a second time right after add(s, l), with s >= 0    *)
(* and l >= 0, changes neither the boundary array, nor the frontier, nor the *)
(* cardinality.                                                              *)
AddTwiceIsAddOnce ==
    [][ (IsCall /\ Len(calls) >= 1 /\ LastCall' = LastCall /\ ValidCall(LastCall))
        => (content' = content /\ last' = last /\ length' = length) ]_vars

\* the same range was added twice to the empty set, and the first call
\* appended it
AddTwiceWitness ==
    /\ Len(calls) = 2
    /\ calls[1] = calls[2]
    /\ calls[1].start >= 1
    /\ calls[1].length >= 1
    /\ length = calls[1].length
    /\ last = calls[1].start + calls[1].length

(* C6: add(a, m) then add(a+m, n) on an empty set, with m, n >= 1, gives one *)
(* present run [a, a+m+n) under one run-start entry and cardinality m+n.     *)
AdjacentAddsCoalesce ==
    (/\ Len(calls) = 2
     /\ calls[1].length >= 1
     /\ calls[2].length >= 1
     /\ calls[2].start = calls[1].start + calls[1].length)
    => /\ length = calls[1].length + calls[2].length
       /\ calls[1].start \in DOMAIN content
       /\ content[calls[1].start] = calls[2].start + calls[2].length
       /\ Cardinality({n \in 1..Len(RunStarts) : content[RunStarts[n]] > 0}) = 1

(* C7: after every valid add call (length 0 included) the runs read in       *)
(* increasing key order alternate: no two touching runs are both absent or   *)
(* both present.                                                             *)
RunsAlternate ==
    \A n \in 1..(Len(RunStarts) - 1) :
        (content[RunStarts[n]] > 0) # (content[RunStarts[n + 1]] > 0)

(* C8: every add call invokes enumerableContentDidChange once, with the      *)
(* start and length of the call, after the boundary array, the frontier, the *)
(* cardinality and the hints have their final values: the set the hook sees  *)
(* is the set add returns.                                                   *)
HookOncePerAddOnFinalState ==
    [][ IsCall
        => /\ Len(hook') = Len(hook) + 1
           /\ SubSeq(hook', 1, Len(hook)) = hook
           /\ hook'[Len(hook')].start = LastCall'.start
           /\ hook'[Len(hook')].length = LastCall'.length
           /\ hookSeen' = [content |-> content', last |-> last', length |-> length'] ]_vars

\* a call whose _hint wrote an accelerator entry has notified
HookWitness ==
    /\ Len(hook) = 1
    /\ \E p \in DOMAIN hookSeen.content :
          /\ p > 0 /\ p % HINT_SIZE = 0
          /\ p < hookSeen.last
          /\ hookSeen.content[p] >= 0 /\ hookSeen.content[p] < p

(* C9: an add call with start < 0 or length < 0 is reported as InvalidRange  *)
(* and leaves the boundary array, the frontier and the cardinality alone.    *)
InvalidRangeRejected ==
    [][ (IsCall /\ ~ValidCall(LastCall'))
        => /\ result' = "InvalidRange"
           /\ content' = content /\ last' = last /\ length' = length ]_vars

(* C10: nextObject driven from null until it returns null yields the present *)
(* indexes, each once, in increasing order: never the frontier, never an     *)
(* absent index, nothing on an empty set.                                    *)
EnumerationYieldsPresent ==
    iter.phase = "done"
    => /\ \A n \in 1..Len(yielded) : IsPresentIn(content, yielded[n])
       /\ \A n \in 1..(Len(yielded) - 1) : yielded[n] < yielded[n + 1]
       /\ \A i \in Probes : IsPresentIn(content, i) => \E n \in 1..Len(yielded) : yielded[n] = i

(* C11: remove(s, l) right after add(s, l) on an empty set, with s >= 0 and  *)
(* l >= 0, leaves an empty set: cardinality 0 and contains(i) false for      *)
(* every index.                                                              *)
RemoveUndoesAdd ==
    (/\ Len(calls) = 1 /\ Len(removed) = 1
     /\ removed[1].after = 1
     /\ removed[1].start = calls[1].start
     /\ removed[1].length = calls[1].length)
    => /\ length = 0
       /\ \A i \in Probes : ~contains(content, last, i, 1)

(* C12: rangeStartForIndex(index) returns the frontier when index is at or  *)
(* after the frontier, and otherwise the key r of the run, present or        *)
(* absent, that contains index: r is a run-start and r <= index < end(r).    *)
RangeStartIsContainingRun ==
    \A i \in Probes :
        LET r == rangeStartForIndex(content, last, i)
        IN  IF i >= last
            THEN r = Num(last)
            ELSE /\ IsNum(r)
                 /\ \E n \in 1..Len(RunStarts) : RunStarts[n] = r.v
                 /\ r.v <= i
                 /\ i < Abs(Get(content, r)).v

(* C13: contains(start, 0) is true for every start >= 0, be it present,      *)
(* absent below the frontier, or at or after the frontier.                   *)
ContainsEmptyRange == \A i \in Probes : contains(content, last, i, 0)

\* the multiples of HINT_SIZE strictly between 0 and the frontier
HintPositions == {p \in 1..(last - 1) : p % HINT_SIZE = 0}

IsRunStart(k) == \E n \in 1..Len(RunStarts) : RunStarts[n] = k

(* C14: after every valid add call, every positive multiple p of HINT_SIZE   *)
(* below the frontier that is not a run-start holds the largest run-start    *)
(* key <= p: no hint is missing or stale.                                    *)
HintsPointToRunStart ==
    \A rs \in {RunStarts} :
        \A p \in HintPositions :
            (\A n \in 1..Len(rs) : rs[n] # p)
            => /\ p \in DOMAIN content
               /\ \E n \in 1..Len(rs) : rs[n] = content[p]
               /\ content[p] <= p
               /\ \A n \in 1..Len(rs) : rs[n] <= p => rs[n] <= content[p]

\* a hint lies inside a present run that starts after key 0
HintsWitness ==
    \E p \in HintPositions :
        /\ ~IsRunStart(p)
        /\ p \in DOMAIN content
        /\ content[p] > 0
        /\ content[content[p]] > p

(* C15: _hint writes at multiples of HINT_SIZE only and never over a         *)
(* run-start entry: through the hint refresh of every add call each          *)
(* run-start, one on a multiple of HINT_SIZE included, keeps the end that    *)
(* add wrote for it.                                                         *)
HintKeepsRunStarts ==
    [][ IsCall
        => \A bordered \in {AddBorders(content, last, LastCall'.start, LastCall'.length)} :
               /\ \A rs \in {RunStartsFrom(bordered, 0, {})} :
                      \A n \in 1..Len(rs) : content'[rs[n]] = bordered[rs[n]]
               /\ \A k \in DOMAIN content' :
                      (k \notin DOMAIN bordered \/ content'[k] # bordered[k])
                      => k % HINT_SIZE = 0 ]_vars

\* the last call appended a present run that starts on a hint position, and
\* its _hint went over that position
HintKeepsWitness ==
    /\ Len(calls) >= 1
    /\ LastCall.start = HINT_SIZE
    /\ LastCall.length >= 1
    /\ last = HINT_SIZE + LastCall.length
    /\ content[HINT_SIZE] = last

(* C16: after every valid add call the chain of run-starts from key 0 has   *)
(* strictly increasing keys, every run ends after its key, and the chain     *)
(* ends at the frontier: the runs tile [0, frontier).                        *)
RunsTileToFrontier ==
    LET rs     == RunStarts
        End(n) == IF content[rs[n]] < 0 THEN 0 - content[rs[n]] ELSE content[rs[n]]
    IN  /\ \A n \in 1..Len(rs) : End(n) > rs[n]
        /\ \A n \in 1..(Len(rs) - 1) : rs[n] < rs[n + 1] /\ End(n) = rs[n + 1]
        /\ IF Len(rs) = 0 THEN last = 0 ELSE rs[1] = 0 /\ End(Len(rs)) = last
        /\ last \in DOMAIN content /\ content[last] = 0

\* two appends, the first of length 0, the second of a present run
RunsTileWitness ==
    /\ Len(calls) = 2
    /\ Len(RunStarts) = 3
    /\ calls[1].length = 0
    /\ length >= 1

(* C17: in every state reached by valid add calls, contains(start, n) with   *)
(* n >= 1 is true only if every index of [start, start+n) was covered by an  *)
(* earlier add call, also when the lookup goes through a hint or a run-start *)
(* on a hint position.                                                       *)
ContainsIsSound ==
    \A i \in Probes, n \in 1..(MaxLen + 1) :
        contains(content, last, i, n) => \A j \in i..(i + n - 1) : Covered(j)

\* contains is true of an index that is not a run-start, found from the hint
\* of its window
ContainsSoundWitness ==
    \E i \in Probes :
        /\ i > HINT_SIZE
        /\ i < last
        /\ i \notin DOMAIN content
        /\ ~IsRunStart(i - JSMod(i, HINT_SIZE))
        /\ contains(content, last, i, 1)

WalksTerminate ==
    /\ ~hung
    /\ \A i \in Probes : rangeStartForIndex(content, last, i) # Diverges

\* the lookup of an index inside the present run that starts on a hint
\* position: the walk starts from the end of that run, the frontier, and goes
\* through its marker 0 and key 0
WalksWitness ==
    /\ Len(calls) >= 1
    /\ HINT_SIZE \in DOMAIN content
    /\ content[HINT_SIZE] = last
    /\ last >= HINT_SIZE + 2
    /\ rangeStartForIndex(content, last, HINT_SIZE + 1) = Num(HINT_SIZE)

====
